---- MODULE Spec2Model ----
(***************************************************************************)
(* State-machine model of OriginBackend (kstars/telescopes/origin): the    *)
(* WebSocket session, the command engine, the status rotation, the camera  *)
(* exposure state machine and the image notification / download pipeline.  *)
(* All handlers run on one Qt event loop, so every handler is one atomic   *)
(* action; nested event loops (connectToTelescope, singleShot) split the   *)
(* call that opens them into the part before and the part after the wait.  *)
(***************************************************************************)
EXTENDS Integers, Sequences, FiniteSets, TLC

(***************************************************************************)
(* Bounds of the model.                                                    *)
(***************************************************************************)
\* sequence ids after which no call and no connected event is assigned another
MaxCommands == 4
\* queries updateStatus may send in one behaviour
MaxRotations == 4
\* requestImage replies in flight at once where a camera operation is followed
MaxFetches == 1
\* requestImage replies that may be in flight at once
MaxOverlap == 2
\* connected events of the transport in one behaviour
MaxConnections == 2
\* commands a caller may have sent through sendCommand in one behaviour
MaxForwards == 1

(***************************************************************************)
(* Program constants.                                                      *)
(***************************************************************************)
\* m_nextSequenceId(2000)
SeedSequenceId == 2000
\* m_currentISO(200), m_currentGain(200)
DefaultISO == 200
\* m_currentExposure(0.1): exposure times are counted in tenths of a second
DefaultExposure == 1
\* switch (m_statusRotation % 3)
RotationLength == 3

(***************************************************************************)
(* Input domains.                                                          *)
(***************************************************************************)
Hosts == {"origin"}
\* exposure durations (tenths of a second) and ISO / gain values of callers
Durations == {20}
Gains == {400}
\* QDateTime::currentDateTimeUtc() at the moment of a startExposure call
Times == {"t1"}
\* Ra / Dec / ExposureTime triples carried by NewImageReady notifications
Metas == {[Ra |-> 1, Dec |-> 1, ExposureTime |-> 1],
          [Ra |-> 2, Dec |-> 2, ExposureTime |-> 2]}
\* response bodies of a successful download: a decodable image or not
Bodies == {"image", "junk"}

\* File paths are character sequences, so that endsWith is computed.
JpgPath == <<"a", ".", "j", "p", "g">>
TiffPath == <<"b", ".", "t", "i", "f", "f">>
TifPath == <<"c", ".", "T", "I", "F">>
EmptyPath == <<>>
Paths == {EmptyPath, JpgPath, TiffPath, TifPath}

\* Qt::CaseInsensitive folding of the characters used in Paths
ToLower(c) ==
    CASE c = "T" -> "t"
      [] c = "I" -> "i"
      [] c = "F" -> "f"
      [] OTHER -> c

\* QString::endsWith(suffix, Qt::CaseInsensitive)
EndsWith(s, suffix) ==
    /\ Len(s) >= Len(suffix)
    /\ \A i \in 1..Len(suffix) :
          ToLower(s[Len(s) - Len(suffix) + i]) = ToLower(suffix[i])

DotTiff == <<".", "t", "i", "f", "f">>
DotTif == <<".", "t", "i", "f">>
DotJpg == <<".", "j", "p", "g">>

\* bool isTiff = filePath.endsWith(".tiff") || filePath.endsWith(".tif")
IsTiffPath(p) == EndsWith(p, DotTiff) \/ EndsWith(p, DotTif)

VARIABLES
    sock,                  \* m_webSocket->state()
    connectWaiting,        \* a connectToTelescope call sits in its nested loop
    m_connectedHost,
    m_telescopeIP,
    m_status,              \* TelescopeStatus (flags and operation label)
    statusTimerActive,     \* m_statusTimer->isActive()
    pingTimerActive,       \* m_pingTimer->isActive()
    m_statusRotation,
    m_nextSequenceId,
    m_pendingCommands,
    wire,                  \* text messages written to the control channel
    m_cameraState,
    m_lastExposureDuration,
    m_lastExposureStartTime,
    m_currentGain,
    m_imageReady,
    m_lastImageData,
    m_lastImageFormat,
    m_lastImagePath,
    m_lastImage,
    m_isExposing,
    m_snapshotInProgress,
    snapshotOutstanding,   \* a snapshot was requested and its TIFF fetch has not finished
    m_lastImageMeta,       \* m_lastImageRa, m_lastImageDec, m_lastImageExposure
    m_lastImageFilePath,
    m_currentExposure,
    m_currentISO,
    m_cameraManualMode,
    replies,               \* requestImage replies in flight, with their properties
    downloads,             \* m_imageDownloader replies in flight
    singleShotPc,          \* where a singleShot call stands
    ret,                   \* what the call or handler that ran last returned
    connectResult,         \* what the last finished connectToTelescope call returned
    emitted,               \* the signals it emitted, in order
    connections,           \* connected events of the transport so far
    ticksSinceConnected,   \* status timer ticks since the last of them
    rotationQueries        \* command and destination of the queries updateStatus wrote

connVars == <<sock, connectWaiting, m_connectedHost, statusTimerActive, pingTimerActive>>
cmdVars == <<m_nextSequenceId, m_pendingCommands, wire>>
expVars == <<m_cameraState, m_lastExposureDuration, m_lastExposureStartTime, m_currentGain>>
imgVars == <<m_imageReady, m_lastImageData, m_lastImageFormat, m_lastImagePath, m_lastImage>>
snapVars == <<m_snapshotInProgress, snapshotOutstanding, m_lastImageMeta, m_lastImageFilePath>>
parVars == <<m_currentExposure, m_currentISO, m_cameraManualMode>>
netVars == <<replies, downloads, m_telescopeIP>>
callVars == <<singleShotPc, m_isExposing>>
linkHistory == <<connections, ticksSinceConnected, rotationQueries>>
ghostVars == <<ret, connectResult, emitted, connections, ticksSinceConnected, rotationQueries>>

vars == <<connVars, m_status, m_statusRotation, cmdVars, expVars, imgVars, snapVars,
          parVars, netVars, callVars, ghostVars>>

CameraStates == {"Idle", "Exposing", "Reading", "Error"}

\* TelescopeStatus default member initialisers
InitialStatus ==
    [isConnected |-> FALSE,
     isLogicallyConnected |-> FALSE,
     isCameraLogicallyConnected |-> FALSE,
     isSlewing |-> FALSE,
     isTracking |-> FALSE,
     isParked |-> FALSE,
     isAligned |-> FALSE,
     currentOperation |-> "Idle"]

NoMeta == [Ra |-> 0, Dec |-> 0, ExposureTime |-> 0]
NoParams == [k \in {} |-> 0]

\* OriginBackend::OriginBackend
Init ==
    /\ sock = "Unconnected"
    /\ connectWaiting = FALSE
    /\ m_connectedHost = ""
    /\ m_telescopeIP = ""
    /\ m_status = InitialStatus
    /\ statusTimerActive = FALSE
    /\ pingTimerActive = FALSE
    /\ m_statusRotation = 0
    /\ m_nextSequenceId = SeedSequenceId
    /\ m_pendingCommands = [k \in {} |-> ""]
    /\ wire = <<>>
    /\ m_cameraState = "Idle"
    /\ m_lastExposureDuration = 0
    /\ m_lastExposureStartTime = ""
    /\ m_currentGain = DefaultISO
    /\ m_imageReady = FALSE
    /\ m_lastImageData = ""
    /\ m_lastImageFormat = ""
    /\ m_lastImagePath = EmptyPath
    /\ m_lastImage = ""
    /\ m_isExposing = FALSE
    /\ m_snapshotInProgress = FALSE
    /\ snapshotOutstanding = FALSE
    /\ m_lastImageMeta = NoMeta
    /\ m_lastImageFilePath = EmptyPath
    /\ m_currentExposure = DefaultExposure
    /\ m_currentISO = DefaultISO
    /\ m_cameraManualMode = FALSE
    /\ replies = <<>>
    /\ downloads = <<>>
    /\ singleShotPc = "none"
    /\ ret = "void"
    /\ connectResult = "none"
    /\ emitted = <<>>
    /\ connections = 0
    /\ ticksSinceConnected = 0
    /\ rotationQueries = <<>>

\* OriginBackend::isConnected: QWebSocket::isValid() holds only in ConnectedState
isConnected == sock = "Connected"

\* m_webSocket && m_webSocket->isValid()
isValid == sock = "Connected"

\* OriginBackend::isLogicallyConnected
isLogicallyConnected == isConnected /\ m_status.isLogicallyConnected

\* every assignment of a sequence id is capped by the model's bound
IdAvailable == m_nextSequenceId < SeedSequenceId + MaxCommands

\* the queries of the status rotation have a cap of their own
RotationAvailable == m_statusRotation < MaxRotations

\* the pending entries that are neither rotation queries nor the query of a
\* connected event are commands of callers; their number is capped too
Forwarded == Cardinality(DOMAIN m_pendingCommands) - m_statusRotation - connections
ForwardAvailable == IdAvailable /\ Forwarded < MaxForwards

(***************************************************************************)
(* Command engine.                                                         *)
(***************************************************************************)
FixedKeys == {"Command", "Destination", "SequenceID", "Source", "Type"}

\* createCommand without the advancing counter: every command carries the seed
createCommandSeedId(command, destination, params) ==
    LET fixed == [Command |-> command,
                  Destination |-> destination,
                  SequenceID |-> SeedSequenceId,
                  Source |-> "AlpacaServer",
                  Type |-> "Command"]
    IN  [k \in FixedKeys \cup DOMAIN params |->
            IF k \in DOMAIN params THEN params[k] ELSE fixed[k]]

\* OriginBackend::createCommand: the fixed fields, then the caller's parameters
\* written over them key by key
createCommand(command, destination, params) ==
    LET fixed == [Command |-> command,
                  Destination |-> destination,
                  SequenceID |-> m_nextSequenceId,
                  Source |-> "AlpacaServer",
                  Type |-> "Command"]
    IN  [k \in FixedKeys \cup DOMAIN params |->
            IF k \in DOMAIN params THEN params[k] ELSE fixed[k]]

\* sendCommand without its write to the pending table
RecordPendingNothing(table, id, command) == table

\* m_pendingCommands[sequenceId] = command
RecordPending(table, id, command) ==
    [k \in DOMAIN table \cup {id} |-> IF k = id THEN command ELSE table[k]]

\* OriginBackend::sendCommand with the link state it finds: the id is consumed
\* before the link is looked at
sendCommandOn(linkUp, command, destination, params) ==
    LET jsonCommand == createCommand(command, destination, params)
    IN  /\ m_nextSequenceId' = m_nextSequenceId + 1
        /\ IF linkUp
              THEN /\ wire' = Append(wire, jsonCommand)
                   /\ m_pendingCommands' =
                         RecordPending(m_pendingCommands, jsonCommand["SequenceID"], command)
              ELSE UNCHANGED <<wire, m_pendingCommands>>

\* OriginBackend::sendCommand
sendCommand(command, destination, params) ==
    sendCommandOn(isConnected, command, destination, params)

Bool(b) == IF b THEN "true" ELSE "false"

\* what a call or handler leaves for its caller and its observers: the value
\* returned and the signals emitted (for the finished handler of requestImage
\* and for a response with an error code also the warning logged)
Done(result, signals) ==
    /\ ret' = result
    /\ emitted' = signals

(***************************************************************************)
(* Connection lifecycle.                                                   *)
(***************************************************************************)
\* OriginBackend::connectToTelescope up to loop.exec(): an already connected
\* session returns at once, otherwise the socket is opened and the call waits
ConnectToTelescope(host) ==
    /\ ~connectWaiting
    /\ IF isConnected
          THEN /\ connectResult' = "true"
               /\ Done("true", <<>>)
               /\ UNCHANGED connVars
          ELSE /\ m_connectedHost' = host
               /\ sock' = "Connecting"
               /\ connectWaiting' = TRUE
               /\ connectResult' = "none"
               /\ Done("void", <<>>)
               /\ UNCHANGED <<statusTimerActive, pingTimerActive>>
    /\ UNCHANGED <<linkHistory, m_status, m_statusRotation, cmdVars, expVars, imgVars,
                   snapVars, parVars, netVars, callVars>>

\* the timeout of connectToTelescope reporting success whatever the link is
ConnectTimeoutReportsSuccess ==
    /\ connectWaiting
    /\ connectWaiting' = FALSE
    /\ connectResult' = "true"
    /\ Done("true", <<>>)
    /\ UNCHANGED <<sock, m_connectedHost, statusTimerActive, pingTimerActive, linkHistory,
                   m_status, m_statusRotation, cmdVars, expVars, imgVars, snapVars,
                   parVars, netVars, callVars>>

\* the 10 s timer of connectToTelescope quits its loop: return isConnected()
ConnectTimeout ==
    /\ connectWaiting
    /\ connectWaiting' = FALSE
    /\ connectResult' = Bool(isConnected)
    /\ Done(Bool(isConnected), <<>>)
    /\ UNCHANGED <<sock, m_connectedHost, statusTimerActive, pingTimerActive, linkHistory,
                   m_status, m_statusRotation, cmdVars, expVars, imgVars, snapVars,
                   parVars, netVars, callVars>>

\* onWebSocketConnected starting the status rotation over
OnWebSocketConnectedRestartsRotation ==
    /\ sock = "Connecting"
    /\ IdAvailable
    /\ connections < MaxConnections
    /\ connections' = connections + 1
    /\ ticksSinceConnected' = 0
    /\ UNCHANGED rotationQueries
    /\ sock' = "Connected"
    /\ m_status' = [m_status EXCEPT !.isConnected = TRUE]
    /\ statusTimerActive' = TRUE
    /\ pingTimerActive' = TRUE
    /\ sendCommandOn(TRUE, "GetStatus", "Mount", NoParams)
    /\ connectWaiting' = FALSE
    /\ connectResult' = IF connectWaiting THEN "true" ELSE connectResult
    /\ Done("void", << <<"connected">> >>)
    /\ m_statusRotation' = 0
    /\ UNCHANGED <<m_connectedHost, expVars, imgVars, snapVars,
                   parVars, netVars, callVars>>

\* OriginBackend::onWebSocketConnected, run by the transport's connected signal;
\* the same signal quits the loop of a waiting connectToTelescope call
OnWebSocketConnected ==
    /\ sock = "Connecting"
    /\ IdAvailable
    /\ connections < MaxConnections
    /\ connections' = connections + 1
    /\ ticksSinceConnected' = 0
    /\ UNCHANGED rotationQueries
    /\ sock' = "Connected"
    /\ m_status' = [m_status EXCEPT !.isConnected = TRUE]
    /\ statusTimerActive' = TRUE
    /\ pingTimerActive' = TRUE
    /\ sendCommandOn(TRUE, "GetStatus", "Mount", NoParams)
    /\ connectWaiting' = FALSE
    /\ connectResult' = IF connectWaiting THEN "true" ELSE connectResult
    /\ Done("void", << <<"connected">> >>)
    /\ UNCHANGED <<m_connectedHost, m_statusRotation, expVars, imgVars, snapVars,
                   parVars, netVars, callVars>>

\* onWebSocketDisconnected clearing the physical flag only
DisconnectedStatusPhysicalOnly(status) == [status EXCEPT !.isConnected = FALSE]

\* the body of OriginBackend::onWebSocketDisconnected on a status record
DisconnectedStatus(status) ==
    [status EXCEPT !.isConnected = FALSE, !.isLogicallyConnected = FALSE]

\* onWebSocketDisconnected ending the exposure and the snapshot as well
OnWebSocketDisconnectedResetsCamera ==
    /\ sock \in {"Connected", "Closing", "Connecting"}
    /\ sock' = "Unconnected"
    /\ m_status' = DisconnectedStatus(m_status)
    /\ statusTimerActive' = FALSE
    /\ pingTimerActive' = FALSE
    /\ m_cameraState' = "Idle"
    /\ m_snapshotInProgress' = FALSE
    /\ Done("void", << <<"disconnected">> >>)
    /\ UNCHANGED <<connectWaiting, connectResult, linkHistory, m_connectedHost, m_statusRotation,
                   cmdVars, m_lastExposureDuration, m_lastExposureStartTime, m_currentGain,
                   imgVars, snapshotOutstanding, m_lastImageMeta, m_lastImageFilePath,
                   parVars, netVars, callVars>>

\* OriginBackend::onWebSocketDisconnected, run by the transport's disconnected
\* signal: the link failed, a close finished, or a connection attempt failed
OnWebSocketDisconnected ==
    /\ sock \in {"Connected", "Closing", "Connecting"}
    /\ sock' = "Unconnected"
    /\ m_status' = DisconnectedStatus(m_status)
    /\ statusTimerActive' = FALSE
    /\ pingTimerActive' = FALSE
    /\ Done("void", << <<"disconnected">> >>)
    /\ UNCHANGED <<connectWaiting, connectResult, linkHistory, m_connectedHost, m_statusRotation,
                   cmdVars, expVars, imgVars, snapVars, parVars, netVars, callVars>>

\* disconnectFromTelescope leaving the camera flag as it is
ClearedStatusKeepsCamera(status) ==
    [status EXCEPT !.isConnected = FALSE, !.isLogicallyConnected = FALSE]

\* the status flags forced by OriginBackend::disconnectFromTelescope
ClearedStatus(status) ==
    [status EXCEPT !.isConnected = FALSE,
                   !.isLogicallyConnected = FALSE,
                   !.isCameraLogicallyConnected = FALSE]

\* disconnectFromTelescope stopping the status timer but not the ping timer
DisconnectFromTelescopeKeepsPinging(closesAtOnce) ==
    /\ sock' = IF isConnected
                 THEN (IF closesAtOnce THEN "Unconnected" ELSE "Closing")
                 ELSE sock
    /\ statusTimerActive' = FALSE
    /\ pingTimerActive' = IF isConnected /\ closesAtOnce THEN FALSE ELSE pingTimerActive
    /\ m_status' = ClearedStatus(IF isConnected /\ closesAtOnce
                                    THEN DisconnectedStatus(m_status)
                                    ELSE m_status)
    /\ Done("void",
            IF isConnected /\ closesAtOnce
               THEN << <<"disconnected">>, <<"disconnected">> >>
               ELSE << <<"disconnected">> >>)
    /\ UNCHANGED <<connectWaiting, connectResult, linkHistory, m_connectedHost, m_statusRotation,
                   cmdVars, expVars, imgVars, snapVars, parVars, netVars, callVars>>

\* OriginBackend::disconnectFromTelescope. close() on a connected socket either
\* finishes at once (the disconnected signal is delivered inside the call) or
\* leaves the socket closing, the signal following later
DisconnectFromTelescope(closesAtOnce) ==
    /\ sock' = IF isConnected
                 THEN (IF closesAtOnce THEN "Unconnected" ELSE "Closing")
                 ELSE sock
    /\ statusTimerActive' = FALSE
    /\ pingTimerActive' = FALSE
    /\ m_status' = ClearedStatus(IF isConnected /\ closesAtOnce
                                    THEN DisconnectedStatus(m_status)
                                    ELSE m_status)
    /\ Done("void",
            IF isConnected /\ closesAtOnce
               THEN << <<"disconnected">>, <<"disconnected">> >>
               ELSE << <<"disconnected">> >>)
    /\ UNCHANGED <<connectWaiting, connectResult, linkHistory, m_connectedHost, m_statusRotation,
                   cmdVars, expVars, imgVars, snapVars, parVars, netVars, callVars>>

\* OriginBackend::setConnected
SetConnected(connected) ==
    /\ m_status' = IF connected /\ ~m_status.isConnected
                     THEN m_status
                     ELSE [m_status EXCEPT !.isLogicallyConnected = connected]
    /\ Done("void", <<>>)
    /\ UNCHANGED <<connVars, connectResult, linkHistory, m_statusRotation, cmdVars, expVars, imgVars,
                   snapVars, parVars, netVars, callVars>>

\* OriginBackend::setCameraConnected
SetCameraConnected(connected) ==
    /\ m_status' = IF connected /\ ~m_status.isConnected
                     THEN m_status
                     ELSE [m_status EXCEPT !.isCameraLogicallyConnected = connected]
    /\ Done("void", <<>>)
    /\ UNCHANGED <<connVars, connectResult, linkHistory, m_statusRotation, cmdVars, expVars, imgVars,
                   snapVars, parVars, netVars, callVars>>

(***************************************************************************)
(* Mount and camera operations that forward to sendCommand.                *)
(***************************************************************************)
\* hoursToRadians / degreesToRadians: the value with the unit it was converted to
Radians(unit, v) == <<"radians", unit, v>>

\* the shape shared by the forwarding operations: without a link, return false
\* and touch nothing; otherwise send one command, apply the operation's own
\* effect on the telescope status and return true
Forward(command, destination, params, status) ==
    /\ isConnected => ForwardAvailable
    /\ IF ~isConnected
          THEN /\ Done("false", <<>>)
               /\ UNCHANGED <<m_status, cmdVars>>
          ELSE /\ sendCommand(command, destination, params)
               /\ m_status' = status
               /\ Done("true", <<>>)
    /\ UNCHANGED <<connVars, connectResult, linkHistory, m_statusRotation, expVars, imgVars,
                   parVars, netVars, callVars>>

\* OriginBackend::gotoPosition
GotoPosition(ra, dec) ==
    /\ Forward("GotoRaDec", "Mount",
               [Ra |-> Radians("hours", ra), Dec |-> Radians("degrees", dec)],
               [m_status EXCEPT !.isSlewing = TRUE, !.currentOperation = "Slewing"])
    /\ UNCHANGED snapVars

\* OriginBackend::syncPosition
SyncPosition(ra, dec) ==
    /\ Forward("SyncToRaDec", "Mount",
               [Ra |-> Radians("hours", ra), Dec |-> Radians("degrees", dec)],
               m_status)
    /\ UNCHANGED snapVars

\* OriginBackend::takeSnapshot
takeSnapshot(exposure, iso) ==
    /\ Forward("RunSampleCapture", "TaskController",
               [ExposureTime |-> exposure, ISO |-> iso], m_status)
    /\ m_snapshotInProgress' = IF isConnected THEN TRUE ELSE m_snapshotInProgress
    /\ snapshotOutstanding' = IF isConnected THEN TRUE ELSE snapshotOutstanding
    /\ UNCHANGED <<m_lastImageMeta, m_lastImageFilePath>>

TakeSnapshot(exposure, iso) == takeSnapshot(exposure, iso)

\* OriginBackend::takeSingleSnapshot
TakeSingleSnapshot == takeSnapshot(m_currentExposure, m_currentISO)

\* OriginBackend::setCameraManualMode
SetCameraManualMode ==
    /\ Forward("SetEnableManual", "LiveStream", NoParams, m_status)
    /\ UNCHANGED snapVars

\* OriginBackend::setCameraAutoMode
SetCameraAutoMode ==
    /\ Forward("SetEnableAuto", "LiveStream", NoParams, m_status)
    /\ UNCHANGED snapVars

\* OriginBackend::getCameraMode
GetCameraMode ==
    /\ Forward("GetEnableManual", "LiveStream", NoParams, m_status)
    /\ UNCHANGED snapVars

\* OriginBackend::getCaptureParameters
GetCaptureParameters ==
    /\ Forward("GetCaptureParameters", "Camera", NoParams, m_status)
    /\ UNCHANGED snapVars

\* OriginBackend::setCaptureParameters
setCaptureParameters(exposure, iso) ==
    /\ Forward("SetCaptureParameters", "Camera",
               [Exposure |-> exposure, ISO |-> iso], m_status)
    /\ UNCHANGED snapVars

SetCaptureParameters(exposure, iso) ==
    setCaptureParameters(exposure, iso)

\* OriginBackend::setCameraExposure
SetCameraExposure(seconds) ==
    setCaptureParameters(seconds, m_currentISO)

\* OriginBackend::setCameraISO
SetCameraISO(iso) ==
    setCaptureParameters(m_currentExposure, iso)

\* OriginBackend::getCameraInfo
GetCameraInfo ==
    /\ Forward("GetCameraInfo", "Camera", NoParams, m_status)
    /\ UNCHANGED snapVars

\* OriginBackend::abortMotion
AbortMotion ==
    /\ Forward("AbortAxisMovement", "Mount", NoParams,
               [m_status EXCEPT !.isSlewing = FALSE, !.currentOperation = "Idle"])
    /\ UNCHANGED snapVars

\* OriginBackend::parkMount
ParkMount ==
    /\ Forward("Park", "Mount", NoParams,
               [m_status EXCEPT !.isParked = TRUE, !.currentOperation = "Parking"])
    /\ UNCHANGED snapVars

\* OriginBackend::unparkMount
UnparkMount ==
    /\ Forward("Unpark", "Mount", NoParams,
               [m_status EXCEPT !.isParked = FALSE, !.currentOperation = "Unparking"])
    /\ UNCHANGED snapVars

\* OriginBackend::initializeTelescope
InitializeTelescope ==
    /\ Forward("RunInitialize", "TaskController",
               [Date |-> "today", Time |-> "now", TimeZone |-> "UTC",
                Latitude |-> Radians("degrees", 52), Longitude |-> Radians("degrees", 0),
                FakeInitialize |-> FALSE],
               [m_status EXCEPT !.currentOperation = "Initializing"])
    /\ UNCHANGED snapVars

\* the switch of OriginBackend::moveDirection
AxisOf(direction) ==
    CASE direction = 0 -> [Axis |-> "Dec", Direction |-> "Positive"]
      [] direction = 1 -> [Axis |-> "Dec", Direction |-> "Negative"]
      [] direction = 2 -> [Axis |-> "Ra", Direction |-> "Positive"]
      [] direction = 3 -> [Axis |-> "Ra", Direction |-> "Negative"]
      [] OTHER -> [Axis |-> "", Direction |-> ""]

\* OriginBackend::moveDirection: an unknown direction returns false after the
\* link check, with nothing sent
MoveDirection(direction, speed) ==
    IF isConnected /\ direction \notin 0..3
       THEN /\ Done("false", <<>>)
            /\ UNCHANGED <<connVars, connectResult, linkHistory, m_status, m_statusRotation, cmdVars,
                           expVars, imgVars, snapVars, parVars, netVars, callVars>>
       ELSE /\ Forward("MoveAxis", "Mount",
                       [Axis |-> AxisOf(direction).Axis,
                        Direction |-> AxisOf(direction).Direction,
                        Speed |-> speed],
                       m_status)
            /\ UNCHANGED snapVars

\* OriginBackend::setTracking
SetTracking(enabled) ==
    /\ Forward(IF enabled THEN "StartTracking" ELSE "StopTracking",
               "Mount", NoParams, [m_status EXCEPT !.isTracking = enabled])
    /\ UNCHANGED snapVars

\* OriginBackend::sendCommand called by a user of the class
SendCommand(command, destination, params) ==
    /\ IF isConnected THEN ForwardAvailable ELSE IdAvailable
    /\ sendCommand(command, destination, params)
    /\ Done("void", <<>>)
    /\ UNCHANGED <<connVars, connectResult, linkHistory, m_status, m_statusRotation, expVars, imgVars,
                   snapVars, parVars, netVars, callVars>>

(***************************************************************************)
(* Camera exposure state machine.                                          *)
(***************************************************************************)
\* the command objects startExposure, abortExposure and setGain build by hand
HandBuilt(command, destination, params) ==
    [k \in FixedKeys \cup DOMAIN params |->
        CASE k = "Command" -> command
          [] k = "Destination" -> destination
          [] k = "Source" -> "AlpacaServer"
          [] k = "SequenceID" -> m_nextSequenceId
          [] k = "Type" -> "Command"
          [] OTHER -> params[k]]

\* startExposure without its busy check
startExposureRejectedOffline == ~isLogicallyConnected

\* the two early returns of OriginBackend::startExposure
startExposureRejected == ~isLogicallyConnected \/ m_cameraState # "Idle"

\* OriginBackend::startExposure
StartExposure(duration, iso, now) ==
    /\ ~startExposureRejected => IdAvailable
    /\ IF startExposureRejected
          THEN /\ Done("false", <<>>)
               /\ UNCHANGED <<cmdVars, expVars, imgVars>>
          ELSE /\ m_lastExposureDuration' = duration
               /\ m_currentGain' = iso
               /\ m_lastExposureStartTime' = now
               /\ m_imageReady' = FALSE
               /\ m_lastImageData' = ""
               /\ m_nextSequenceId' = m_nextSequenceId + 1
               /\ IF isValid
                     THEN /\ wire' = Append(wire, HandBuilt("RunSampleCapture", "TaskController",
                                                [ExposureTime |-> duration, ISO |-> iso]))
                          /\ m_cameraState' = "Exposing"
                          /\ Done("true",
                                  << <<"exposureStarted">>, <<"cameraStateChanged", 1>> >>)
                     ELSE /\ Done("false", <<>>)
                          /\ UNCHANGED <<wire, m_cameraState>>
               /\ UNCHANGED <<m_pendingCommands, m_lastImageFormat, m_lastImagePath, m_lastImage>>
    /\ UNCHANGED <<connVars, connectResult, linkHistory, m_status, m_statusRotation, snapVars, parVars,
                   netVars, callVars>>

\* abortExposure going to Idle whether or not the socket takes the command
AbortExposureIgnoresLink ==
    /\ m_cameraState = "Exposing" => IdAvailable
    /\ IF m_cameraState # "Exposing"
          THEN /\ Done("false", <<>>)
               /\ UNCHANGED <<cmdVars, m_cameraState>>
          ELSE /\ m_nextSequenceId' = m_nextSequenceId + 1
               /\ wire' = IF isValid
                             THEN Append(wire, HandBuilt("AbortExposure", "Camera", NoParams))
                             ELSE wire
               /\ m_cameraState' = "Idle"
               /\ Done("true", << <<"cameraStateChanged", 0>> >>)
               /\ UNCHANGED m_pendingCommands
    /\ UNCHANGED <<connVars, connectResult, linkHistory, m_status, m_statusRotation,
                   m_lastExposureDuration, m_lastExposureStartTime, m_currentGain,
                   imgVars, snapVars, parVars, netVars, callVars>>

\* OriginBackend::abortExposure
AbortExposure ==
    /\ m_cameraState = "Exposing" => IdAvailable
    /\ IF m_cameraState # "Exposing"
          THEN /\ Done("false", <<>>)
               /\ UNCHANGED <<cmdVars, m_cameraState>>
          ELSE /\ m_nextSequenceId' = m_nextSequenceId + 1
               /\ IF isValid
                     THEN /\ wire' = Append(wire, HandBuilt("AbortExposure", "Camera", NoParams))
                          /\ m_cameraState' = "Idle"
                          /\ Done("true", << <<"cameraStateChanged", 0>> >>)
                     ELSE /\ Done("false", <<>>)
                          /\ UNCHANGED <<wire, m_cameraState>>
               /\ UNCHANGED m_pendingCommands
    /\ UNCHANGED <<connVars, connectResult, linkHistory, m_status, m_statusRotation,
                   m_lastExposureDuration, m_lastExposureStartTime, m_currentGain,
                   imgVars, snapVars, parVars, netVars, callVars>>

\* setGain sending the exposure of the last capture-parameters response
SetGainSendsCurrentExposure(gain) ==
    /\ isLogicallyConnected => IdAvailable
    /\ IF ~isLogicallyConnected
          THEN /\ Done("false", <<>>)
               /\ UNCHANGED <<cmdVars, m_currentGain>>
          ELSE /\ m_currentGain' = gain
               /\ m_nextSequenceId' = m_nextSequenceId + 1
               /\ IF isValid
                     THEN /\ wire' = Append(wire, HandBuilt("SetCaptureParameters", "Camera",
                                                [ISO |-> gain,
                                                 Exposure |-> m_currentExposure]))
                          /\ Done("true", <<>>)
                     ELSE /\ Done("false", <<>>)
                          /\ UNCHANGED wire
               /\ UNCHANGED m_pendingCommands
    /\ UNCHANGED <<connVars, connectResult, linkHistory, m_status, m_statusRotation, m_cameraState,
                   m_lastExposureDuration, m_lastExposureStartTime, imgVars, snapVars,
                   parVars, netVars, callVars>>

\* OriginBackend::setGain
SetGain(gain) ==
    /\ isLogicallyConnected => IdAvailable
    /\ IF ~isLogicallyConnected
          THEN /\ Done("false", <<>>)
               /\ UNCHANGED <<cmdVars, m_currentGain>>
          ELSE /\ m_currentGain' = gain
               /\ m_nextSequenceId' = m_nextSequenceId + 1
               /\ IF isValid
                     THEN /\ wire' = Append(wire, HandBuilt("SetCaptureParameters", "Camera",
                                                [ISO |-> gain,
                                                 Exposure |-> m_lastExposureDuration]))
                          /\ Done("true", <<>>)
                     ELSE /\ Done("false", <<>>)
                          /\ UNCHANGED wire
               /\ UNCHANGED m_pendingCommands
    /\ UNCHANGED <<connVars, connectResult, linkHistory, m_status, m_statusRotation, m_cameraState,
                   m_lastExposureDuration, m_lastExposureStartTime, imgVars, snapVars,
                   parVars, netVars, callVars>>

\* OriginBackend::setImageReady
SetImageReady(ready) ==
    /\ m_imageReady' = ready
    /\ Done("void", <<>>)
    /\ UNCHANGED <<connVars, connectResult, linkHistory, m_status, m_statusRotation, cmdVars, expVars,
                   m_lastImageData, m_lastImageFormat, m_lastImagePath, m_lastImage,
                   snapVars, parVars, netVars, callVars>>

(***************************************************************************)
(* Status rotation and keep-alive.                                         *)
(***************************************************************************)
\* a rotation that asks the mount at every index
MountQueryOnly(rotation) == <<"GetStatus", "Mount">>

\* the switch of OriginBackend::updateStatus: command and destination
RotationQuery(rotation) ==
    CASE rotation % RotationLength = 0 -> <<"GetStatus", "Mount">>
      [] rotation % RotationLength = 1 -> <<"GetStatus", "Environment">>
      [] rotation % RotationLength = 2 -> <<"GetCaptureParameters", "Camera">>

\* OriginBackend::updateStatus
updateStatus ==
    IF ~isConnected
       THEN UNCHANGED <<cmdVars, m_statusRotation, rotationQueries>>
       ELSE /\ sendCommand(RotationQuery(m_statusRotation)[1],
                           RotationQuery(m_statusRotation)[2], NoParams)
            /\ m_statusRotation' = m_statusRotation + 1
            /\ rotationQueries' =
                  Append(rotationQueries,
                         <<wire'[Len(wire')].Command, wire'[Len(wire')].Destination>>)

\* OriginBackend::updateStatus called by a user of the class
UpdateStatus ==
    /\ isConnected => RotationAvailable
    /\ updateStatus
    /\ Done("void", <<>>)
    /\ UNCHANGED <<connVars, connectResult, connections, ticksSinceConnected, m_status, expVars, imgVars, snapVars,
                   parVars, netVars, callVars>>

\* m_statusTimer's timeout, wired to updateStatus
StatusTimerTick ==
    /\ statusTimerActive
    /\ isConnected => RotationAvailable
    /\ updateStatus
    /\ ticksSinceConnected' = ticksSinceConnected + 1
    /\ Done("void", <<>>)
    /\ UNCHANGED <<connVars, connectResult, connections, m_status, expVars, imgVars, snapVars, parVars,
                   netVars, callVars>>

\* m_pingTimer's timeout: a ping goes out on a valid, connected socket; the
\* ping and its pong touch only the session log
PingTimerTick ==
    /\ pingTimerActive
    /\ Done("void", <<>>)
    /\ UNCHANGED <<connVars, connectResult, linkHistory, m_status, m_statusRotation, cmdVars, expVars,
                   imgVars, snapVars, parVars, netVars, callVars>>

(***************************************************************************)
(* Inbound dispatcher.                                                     *)
(***************************************************************************)
\* Inbound text messages, by the fields the dispatcher reads. A field a message
\* does not carry reads as toString() "", toInt() 0, toDouble() 0.
Message(isObject, type, command, source, fileLocation, errorCode, isManual, exposure, iso, meta) ==
    [isObject |-> isObject, Type |-> type, Command |-> command, Source |-> source,
     FileLocation |-> fileLocation, ErrorCode |-> errorCode, IsManual |-> isManual,
     Exposure |-> exposure, ISO |-> iso, Meta |-> meta]

NotAnObject == Message(FALSE, "", "", "", EmptyPath, 0, "absent", 0, 0, NoMeta)

ImageNotifications ==
    {Message(TRUE, "Notification", "NewImageReady", source, path, 0, "absent", 0, 0, meta) :
        source \in {"ImageServer", "Camera"}, path \in Paths, meta \in Metas}

StatusNotifications ==
    {Message(TRUE, "Notification", "GetStatus", "Mount", EmptyPath, 0, "absent", 0, 0, NoMeta),
     Message(TRUE, "Command", "NewImageReady", "ImageServer", JpgPath, 0, "absent", 0, 0, NoMeta)}

ErrorCodes == {0, 7}

Responses ==
    {Message(TRUE, "Response", "GetCaptureParameters", "Camera", EmptyPath, code, "absent",
             exposure, iso, NoMeta) :
        code \in ErrorCodes, exposure \in Durations, iso \in Gains}
    \cup
    {Message(TRUE, "Response", command, "LiveStream", EmptyPath, code, isManual, 0, 0, NoMeta) :
        command \in {"GetEnableManual", "SetEnableManual", "SetEnableAuto"},
        code \in ErrorCodes, isManual \in {"absent", "true", "false"}}
    \cup
    {Message(TRUE, "Response", command, "Camera", EmptyPath, code, "absent", 0, 0, NoMeta) :
        command \in {"GetCameraInfo", "RunSampleCapture"}, code \in ErrorCodes}

Messages == {NotAnObject} \cup ImageNotifications \cup StatusNotifications \cup Responses

\* What TelescopeDataProcessor::processJsonPacket does with a packet: whether it
\* reports data extracted, whether it emits mountStatusUpdated (wired to
\* updateStatus), and the mount data getData() then holds
MountData == [isTracking : BOOLEAN, isGotoOver : BOOLEAN, isAligned : BOOLEAN]

NotProcessed ==
    [processed |-> FALSE, statusUpdated |-> FALSE,
     data |-> [isTracking |-> FALSE, isGotoOver |-> FALSE, isAligned |-> FALSE]]

Processings ==
    {NotProcessed} \cup
    [processed : {TRUE}, statusUpdated : BOOLEAN, data : MountData]

\* updateStatusFromProcessor labelling a tracking mount before a slewing one
updateStatusFromProcessorTrackingFirst(status, data) ==
    [status EXCEPT
        !.isTracking = data.isTracking,
        !.isSlewing = ~data.isGotoOver,
        !.isAligned = data.isAligned,
        !.currentOperation = IF data.isTracking THEN "Tracking"
                             ELSE IF ~data.isGotoOver THEN "Slewing"
                             ELSE "Idle"]

\* OriginBackend::updateStatusFromProcessor
updateStatusFromProcessor(status, data) ==
    [status EXCEPT
        !.isTracking = data.isTracking,
        !.isSlewing = ~data.isGotoOver,
        !.isAligned = data.isAligned,
        !.currentOperation = IF ~data.isGotoOver THEN "Slewing"
                             ELSE IF data.isTracking THEN "Tracking"
                             ELSE "Idle"]

\* downloadImage issuing its GET whatever m_telescopeIP holds
downloadImageAnyAddress(remotePath) ==
    downloads' = Append(downloads, [remotePath |-> remotePath])

\* OriginBackend::downloadImage: a GET on m_imageDownloader, only with an address
downloadImage(remotePath) ==
    IF m_telescopeIP # ""
       THEN downloads' = Append(downloads, [remotePath |-> remotePath])
       ELSE UNCHANGED downloads

\* requestImage storing the values captured before this notification
requestImageEarlierMeta(filePath) ==
    IF m_connectedHost = ""
       THEN UNCHANGED replies
       ELSE replies' = Append(replies, [filePath |-> filePath,
                                        isTiff |-> IsTiffPath(filePath),
                                        forSnapshot |-> snapshotOutstanding,
                                        meta |-> m_lastImageMeta])

\* OriginBackend::requestImage: the reply and the properties stored in it
requestImage(filePath) ==
    IF m_connectedHost = ""
       THEN UNCHANGED replies
       ELSE replies' = Append(replies, [filePath |-> filePath,
                                        isTiff |-> IsTiffPath(filePath),
                                        forSnapshot |-> snapshotOutstanding,
                                        meta |-> m_lastImageMeta'])

\* handleNewImageReady taking the notification for the start of an exposure
handleNewImageReadyExposing(fileLocation) ==
    /\ m_cameraState' = "Exposing"
    /\ m_lastImagePath' = fileLocation
    /\ downloadImage(fileLocation)

\* handleNewImageReady taking the notification for the end of the readout
handleNewImageReadyIdle(fileLocation) ==
    /\ m_cameraState' = "Idle"
    /\ m_lastImagePath' = fileLocation
    /\ downloadImage(fileLocation)

\* OriginBackend::handleNewImageReady
handleNewImageReady(fileLocation) ==
    /\ m_cameraState' = "Reading"
    /\ m_lastImagePath' = fileLocation
    /\ downloadImage(fileLocation)

\* the response branch without its early return on an error code
AnsweredWhateverCode(msg) == TRUE

\* the response branch goes on only past if (errorCode != 0) return
Answered(msg) == msg.ErrorCode = 0

\* the ImageServer branch without its test of the snapshot flag
NeverSkipsLiveFrame(filePath) == FALSE

\* the test of the ImageServer branch that drops a live frame
SkipsLiveFrame(filePath) == ~IsTiffPath(filePath) /\ m_snapshotInProgress

\* OriginBackend::onTextMessageReceived
OnTextMessageReceived(msg, processing) ==
    LET ticks == msg.isObject /\ processing.statusUpdated
        refreshes == msg.isObject /\ processing.processed
        isResponse == msg.isObject /\ msg.Type = "Response"
        answered == isResponse /\ Answered(msg)
        isNewImage == /\ msg.isObject
                      /\ msg.Type = "Notification"
                      /\ msg.Command = "NewImageReady"
        fromImageServer == /\ isNewImage
                           /\ msg.Source = "ImageServer"
                           /\ msg.FileLocation # EmptyPath
        requests == fromImageServer /\ ~SkipsLiveFrame(msg.FileLocation)
        modeCommands == {"GetEnableManual", "SetEnableManual", "SetEnableAuto"}
        setsMode == /\ answered
                    /\ msg.Command \in modeCommands
                    /\ msg.IsManual # "absent"
        setsParameters == answered /\ msg.Command = "GetCaptureParameters"
    IN  /\ isConnected
        /\ ticks => RotationAvailable
        /\ (requests /\ m_connectedHost # "") => Len(replies) < MaxOverlap
        \* processJsonPacket, its signal, then updateStatusFromProcessor
        /\ IF ticks
              THEN updateStatus
              ELSE UNCHANGED <<cmdVars, m_statusRotation, rotationQueries>>
        /\ m_status' = IF refreshes
                           THEN updateStatusFromProcessor(m_status, processing.data)
                           ELSE m_status
        \* handleNewImageReady
        /\ IF isNewImage
              THEN handleNewImageReady(msg.FileLocation)
              ELSE UNCHANGED <<m_cameraState, m_lastImagePath, downloads>>
        \* camera responses
        /\ IF setsParameters
              THEN /\ m_currentExposure' = msg.Exposure
                   /\ m_currentISO' = msg.ISO
              ELSE UNCHANGED <<m_currentExposure, m_currentISO>>
        /\ m_cameraManualMode' = IF setsMode THEN msg.IsManual = "true"
                                            ELSE m_cameraManualMode
        \* the ImageServer branch
        /\ IF fromImageServer
              THEN /\ m_lastImageMeta' = msg.Meta
                   /\ m_lastImageFilePath' = msg.FileLocation
              ELSE UNCHANGED <<m_lastImageMeta, m_lastImageFilePath>>
        /\ IF requests
              THEN requestImage(msg.FileLocation)
              ELSE UNCHANGED replies
        /\ Done("void",
                (IF refreshes THEN << <<"statusUpdated">> >> ELSE <<>>)
                \o (IF isNewImage
                       THEN << <<"cameraStateChanged", 2>>, <<"exposureComplete">> >>
                       ELSE <<>>)
                \o (IF isResponse /\ ~answered
                       THEN << <<"qWarning", "Command error">> >>
                       ELSE <<>>)
                \o (IF setsParameters
                       THEN << <<"captureParametersChanged", msg.Exposure, msg.ISO>> >>
                       ELSE <<>>)
                \o (IF setsMode
                       THEN << <<"cameraModeChanged", msg.IsManual = "true">> >>
                       ELSE <<>>)
                \o (IF answered /\ msg.Command = "GetCameraInfo"
                       THEN << <<"cameraInfoReceived">> >>
                       ELSE <<>>))
        /\ UNCHANGED <<connVars, connectResult, connections, ticksSinceConnected,
                       m_lastExposureDuration,
                       m_lastExposureStartTime, m_currentGain, m_imageReady,
                       m_lastImageData, m_lastImageFormat, m_lastImage,
                       m_snapshotInProgress, snapshotOutstanding, m_telescopeIP,
                       callVars>>

(***************************************************************************)
(* Download completions.                                                   *)
(***************************************************************************)
RemoveAt(seq, i) == SubSeq(seq, 1, i - 1) \o SubSeq(seq, i + 1, Len(seq))

\* QImage::loadFromData on the bytes of a live frame
LoadFromData(imageData) == imageData = "image"

\* the finished handler clearing the flag on the success of a TIFF fetch only
ClearsOnTiffSuccessOnly(outcome, isTiff) == outcome # "error" /\ isTiff

\* the finished handler clearing the flag on a failed fetch only
ClearsOnFailureOnly(outcome, isTiff) == outcome = "error"

\* the finished handler's two writes of m_snapshotInProgress = false: a failed
\* fetch, and a fetch of a TIFF that succeeded
ClearsSnapshot(outcome, isTiff) == outcome = "error" \/ isTiff

\* the finished handler of the reply created by OriginBackend::requestImage;
\* outcome is "error" or the bytes read
OnRequestFinished(i, outcome) ==
    LET reply == replies[i]
        decoded == outcome # "error" /\ ~reply.isTiff /\ LoadFromData(outcome)
    IN  /\ i \in 1..Len(replies)
        /\ replies' = RemoveAt(replies, i)
        /\ snapshotOutstanding' = IF reply.isTiff /\ reply.forSnapshot
                                      THEN FALSE
                                      ELSE snapshotOutstanding
        /\ m_snapshotInProgress' = IF ClearsSnapshot(outcome, reply.isTiff)
                                       THEN FALSE
                                       ELSE m_snapshotInProgress
        /\ m_lastImage' = IF decoded THEN outcome ELSE m_lastImage
        /\ m_imageReady' = IF decoded THEN TRUE ELSE m_imageReady
        /\ Done("void",
                IF outcome = "error" THEN << <<"qWarning", "Download error">> >>
                ELSE IF reply.isTiff
                        THEN << <<"tiffImageDownloaded", reply.filePath, outcome, reply.meta>> >>
                ELSE IF decoded
                        THEN << <<"liveImageDownloaded", outcome, reply.meta>> >>
                ELSE << <<"qWarning", "Failed to load image">> >>)
        /\ UNCHANGED <<connVars, connectResult, linkHistory, m_status, m_statusRotation, cmdVars,
                       expVars, m_lastImageData, m_lastImageFormat, m_lastImagePath,
                       m_lastImageMeta, m_lastImageFilePath, parVars, downloads,
                       m_telescopeIP, callVars>>

\* the format OriginBackend::onImageDownloadFinished derives from the path
FormatOf(remotePath) ==
    IF EndsWith(remotePath, DotJpg) THEN "JPEG"
    ELSE IF IsTiffPath(remotePath) THEN "TIFF"
    ELSE "RAW"

\* OriginBackend::onImageDownloadFinished, the finished slot of m_imageDownloader
OnImageDownloadFinished(i, outcome) ==
    /\ i \in 1..Len(downloads)
    /\ downloads' = RemoveAt(downloads, i)
    /\ IF outcome # "error"
          THEN /\ m_lastImageData' = outcome
               /\ m_lastImageFormat' = FormatOf(downloads[i].remotePath)
               /\ m_imageReady' = TRUE
               /\ m_cameraState' = "Idle"
               /\ Done("void",
                       << <<"imageReady", downloads[i].remotePath>>,
                          <<"cameraStateChanged", 0>> >>)
          ELSE /\ m_cameraState' = "Error"
               /\ Done("void", << <<"cameraStateChanged", 3>> >>)
               /\ UNCHANGED <<m_lastImageData, m_lastImageFormat, m_imageReady>>
    /\ UNCHANGED <<connVars, connectResult, linkHistory, m_status, m_statusRotation, cmdVars,
                   m_lastExposureDuration, m_lastExposureStartTime, m_currentGain,
                   m_lastImagePath, m_lastImage, snapVars, parVars, replies,
                   m_telescopeIP, callVars>>

(***************************************************************************)
(* singleShot.                                                             *)
(***************************************************************************)
\* OriginBackend::singleShot up to loop500.exec()
SingleShotBegin(gain, binning, exposureTimeMicroseconds) ==
    /\ singleShotPc = "none"
    /\ ~connectWaiting
    /\ isConnected => ForwardAvailable
    /\ IF ~isConnected
          THEN /\ Done("null image", <<>>)
               /\ UNCHANGED <<cmdVars, singleShotPc>>
          ELSE /\ sendCommand("SetCaptureParameters", "Camera",
                              [ISO |-> gain, Binning |-> binning,
                               Exposure |-> <<"seconds", exposureTimeMicroseconds>>])
               /\ singleShotPc' = "loop500"
               /\ Done("void", <<>>)
    /\ UNCHANGED <<connVars, connectResult, linkHistory, m_status, m_statusRotation, expVars, imgVars,
                   snapVars, parVars, netVars, m_isExposing>>

\* OriginBackend::singleShot from the end of the 500 ms wait to loop.exec(): no
\* signal is connected to that loop's quit, so the call goes no further
SingleShotResume ==
    /\ singleShotPc = "loop500"
    /\ ~connectWaiting
    /\ IdAvailable
    /\ sendCommand("RunImaging", "TaskController",
                   [Name |-> "AlpacaCapture", Uuid |-> "uuid", SaveRawImage |-> TRUE])
    /\ m_isExposing' = TRUE
    /\ m_imageReady' = FALSE
    /\ singleShotPc' = "loop"
    /\ Done("void", <<>>)
    /\ UNCHANGED <<connVars, connectResult, linkHistory, m_status, m_statusRotation, expVars,
                   m_lastImageData, m_lastImageFormat, m_lastImagePath, m_lastImage,
                   snapVars, parVars, netVars>>

(***************************************************************************)
(* The session.                                                            *)
(***************************************************************************)
Coordinates == {6}
Speeds == {50}
Directions == 0..4
UserCommands == {<<"GetVersion", "System", NoParams>>}
Outcomes == {"error"} \cup Bodies

Next ==
    \/ \E host \in Hosts : ConnectToTelescope(host)
    \/ ConnectTimeout
    \/ OnWebSocketConnected
    \/ OnWebSocketDisconnected
    \/ \E closesAtOnce \in BOOLEAN : DisconnectFromTelescope(closesAtOnce)
    \/ \E connected \in BOOLEAN : SetConnected(connected)
    \/ \E connected \in BOOLEAN : SetCameraConnected(connected)
    \/ \E ra \in Coordinates, dec \in Coordinates : GotoPosition(ra, dec)
    \/ \E ra \in Coordinates, dec \in Coordinates : SyncPosition(ra, dec)
    \/ \E exposure \in Durations, iso \in Gains : TakeSnapshot(exposure, iso)
    \/ TakeSingleSnapshot
    \/ SetCameraManualMode
    \/ SetCameraAutoMode
    \/ GetCameraMode
    \/ GetCaptureParameters
    \/ \E exposure \in Durations, iso \in Gains : SetCaptureParameters(exposure, iso)
    \/ \E seconds \in Durations : SetCameraExposure(seconds)
    \/ \E iso \in Gains : SetCameraISO(iso)
    \/ GetCameraInfo
    \/ AbortMotion
    \/ ParkMount
    \/ UnparkMount
    \/ InitializeTelescope
    \/ \E direction \in Directions, speed \in Speeds : MoveDirection(direction, speed)
    \/ \E enabled \in BOOLEAN : SetTracking(enabled)
    \/ \E c \in UserCommands : SendCommand(c[1], c[2], c[3])
    \/ \E duration \in Durations, iso \in Gains, now \in Times :
          StartExposure(duration, iso, now)
    \/ AbortExposure
    \/ \E gain \in Gains : SetGain(gain)
    \/ \E ready \in BOOLEAN : SetImageReady(ready)
    \/ UpdateStatus
    \/ StatusTimerTick
    \/ PingTimerTick
    \/ \E msg \in Messages, processing \in Processings :
          OnTextMessageReceived(msg, processing)
    \/ \E i \in 1..MaxOverlap, outcome \in Outcomes : OnRequestFinished(i, outcome)
    \/ \E gain \in Gains, binning \in {1}, us \in {1000000} :
          SingleShotBegin(gain, binning, us)
    \/ SingleShotResume

Spec == Init /\ [][Next]_vars

(***************************************************************************)
(* The session seen by a client that drives the mount and the camera       *)
(* through the operations: the link, the operations that check the link    *)
(* before they act, the raw command of a caller and the status timer.      *)
(***************************************************************************)
OperationsNext ==
    \/ \E host \in Hosts : ConnectToTelescope(host)
    \/ OnWebSocketConnected
    \/ OnWebSocketDisconnected
    \/ \E connected \in BOOLEAN : SetConnected(connected)
    \/ \E ra \in Coordinates, dec \in Coordinates : GotoPosition(ra, dec)
    \/ \E ra \in Coordinates, dec \in Coordinates : SyncPosition(ra, dec)
    \/ \E exposure \in Durations, iso \in Gains : TakeSnapshot(exposure, iso)
    \/ \E exposure \in Durations, iso \in Gains : SetCaptureParameters(exposure, iso)
    \/ AbortMotion
    \/ ParkMount
    \/ UnparkMount
    \/ InitializeTelescope
    \/ \E direction \in Directions, speed \in Speeds : MoveDirection(direction, speed)
    \/ \E enabled \in BOOLEAN : SetTracking(enabled)
    \/ \E c \in UserCommands : SendCommand(c[1], c[2], c[3])
    \/ \E duration \in Durations, iso \in Gains, now \in Times :
          StartExposure(duration, iso, now)
    \/ AbortExposure
    \/ \E gain \in Gains : SetGain(gain)
    \* the ticks that fit the id budget of the operations
    \/ (IdAvailable /\ StatusTimerTick)

SpecOperations == Init /\ [][OperationsNext]_vars

(***************************************************************************)
(* The session seen from the camera: the link, exposures, the image        *)
(* notifications of the telescope and the completions of the image         *)
(* fetches.                                                                *)
(***************************************************************************)
FrameMetas == {m \in Metas : m.ExposureTime = 1}

FrameNotifications == {msg \in ImageNotifications : msg.Meta \in FrameMetas}

\* the notifications an exposure is followed through: one path of each kind
ExposureNotifications == {msg \in FrameNotifications : msg.FileLocation # TifPath}

ExposureNext ==
    \/ \E host \in Hosts : ConnectToTelescope(host)
    \/ OnWebSocketConnected
    \/ OnWebSocketDisconnected
    \/ \E connected \in BOOLEAN : SetConnected(connected)
    \/ \E duration \in Durations, iso \in Gains, now \in Times :
          StartExposure(duration, iso, now)
    \/ AbortExposure
    \/ \E gain \in Gains : SetGain(gain)
    \* one fetch at a time
    \/ \E msg \in ExposureNotifications :
          OnTextMessageReceived(msg, NotProcessed) /\ Len(replies') <= MaxFetches
    \/ \E i \in 1..MaxFetches, outcome \in Outcomes : OnRequestFinished(i, outcome)

SpecExposure == Init /\ [][ExposureNext]_vars

(***************************************************************************)
(* The session seen from the live view: the link, snapshots, the image     *)
(* notifications of the telescope and the completions of the image         *)
(* fetches.                                                                *)
(***************************************************************************)
SnapshotNext ==
    \/ \E host \in Hosts : ConnectToTelescope(host)
    \/ OnWebSocketConnected
    \/ OnWebSocketDisconnected
    \/ \E exposure \in Durations, iso \in Gains : TakeSnapshot(exposure, iso)
    \* one fetch at a time
    \/ \E msg \in FrameNotifications :
          OnTextMessageReceived(msg, NotProcessed) /\ Len(replies') <= MaxFetches
    \/ \E i \in 1..MaxFetches, outcome \in Outcomes : OnRequestFinished(i, outcome)

SpecSnapshot == Init /\ [][SnapshotNext]_vars

(***************************************************************************)
(* The image fetches: the link, takeSnapshot, the notifications of the     *)
(* image server with differing coordinates, and fetches that overlap and   *)
(* complete in any order.                                                  *)
(***************************************************************************)
DownloadNotifications ==
    {msg \in ImageNotifications :
        msg.Source = "ImageServer" /\ msg.FileLocation \in {JpgPath, TiffPath}}

DownloadsNext ==
    \/ \E host \in Hosts : ConnectToTelescope(host)
    \/ OnWebSocketConnected
    \/ OnWebSocketDisconnected
    \* one snapshot, during which live frames are discarded
    \/ \E exposure \in Durations, iso \in Gains :
          Forwarded = 0 /\ TakeSnapshot(exposure, iso)
    \/ \E msg \in DownloadNotifications : OnTextMessageReceived(msg, NotProcessed)
    \/ \E i \in 1..MaxOverlap, outcome \in Outcomes : OnRequestFinished(i, outcome)

SpecDownloads == Init /\ [][DownloadsNext]_vars

(***************************************************************************)
(* The camera settings: the link, the operations that query or set the     *)
(* camera mode and the capture parameters, and the responses of the        *)
(* telescope.                                                              *)
(***************************************************************************)
SettingsNext ==
    \/ \E host \in Hosts : ConnectToTelescope(host)
    \/ OnWebSocketConnected
    \/ OnWebSocketDisconnected
    \/ SetCameraManualMode
    \/ SetCameraAutoMode
    \/ GetCameraMode
    \/ GetCaptureParameters
    \/ GetCameraInfo
    \/ \E msg \in Responses : OnTextMessageReceived(msg, NotProcessed)

SpecSettings == Init /\ [][SettingsNext]_vars

(***************************************************************************)
(* The telescope status: the link, the mount operations of a caller and    *)
(* the status packets of the telescope with what the status parser makes   *)
(* of them.                                                                *)
(***************************************************************************)
\* what the status parser makes of a packet, its signal to updateStatus aside
StatusRefreshes == {processing \in Processings : ~processing.statusUpdated}

StatusNext ==
    \/ \E host \in Hosts : ConnectToTelescope(host)
    \/ OnWebSocketConnected
    \/ OnWebSocketDisconnected
    \/ \E ra \in Coordinates, dec \in Coordinates : GotoPosition(ra, dec)
    \/ AbortMotion
    \/ ParkMount
    \/ UnparkMount
    \/ InitializeTelescope
    \/ \E enabled \in BOOLEAN : SetTracking(enabled)
    \/ \E msg \in StatusNotifications, processing \in StatusRefreshes :
          OnTextMessageReceived(msg, processing)

SpecStatus == Init /\ [][StatusNext]_vars

(***************************************************************************)
(* The session: the link, the status flags, the two timers, the status     *)
(* rotation and the status packets of the telescope.  The 10 s timer of    *)
(* connectToTelescope is a started QTimer: once it is armed it fires.      *)
(***************************************************************************)
SessionNext ==
    \/ \E host \in Hosts : ConnectToTelescope(host)
    \/ ConnectTimeout
    \/ OnWebSocketConnected
    \/ OnWebSocketDisconnected
    \/ \E closesAtOnce \in BOOLEAN : DisconnectFromTelescope(closesAtOnce)
    \/ \E connected \in BOOLEAN : SetConnected(connected)
    \/ \E connected \in BOOLEAN : SetCameraConnected(connected)
    \/ UpdateStatus
    \/ StatusTimerTick
    \/ PingTimerTick
    \/ \E msg \in StatusNotifications, processing \in Processings :
          OnTextMessageReceived(msg, processing)

SpecSession == Init /\ [][SessionNext]_vars /\ WF_vars(ConnectTimeout)

(***************************************************************************)
(* A singleShot call: the link, the call up to its two waits, and what can *)
(* run inside its nested loop: setImageReady, the notifications of new     *)
(* images and the completions of their fetches.  The 500 ms timer of the   *)
(* first wait fires.                                                       *)
(***************************************************************************)
Microseconds == {2000000}

SingleShotNext ==
    \/ \E host \in Hosts : ConnectToTelescope(host)
    \/ OnWebSocketConnected
    \/ OnWebSocketDisconnected
    \/ \E gain \in Gains, us \in Microseconds : SingleShotBegin(gain, 1, us)
    \/ SingleShotResume
    \/ \E ready \in BOOLEAN : SetImageReady(ready)
    \* one fetch at a time
    \/ \E msg \in ExposureNotifications :
          OnTextMessageReceived(msg, NotProcessed) /\ Len(replies') <= MaxFetches
    \/ \E i \in 1..MaxFetches, outcome \in Outcomes : OnRequestFinished(i, outcome)

SpecSingleShot == Init /\ [][SingleShotNext]_vars /\ WF_vars(SingleShotResume)

(***************************************************************************)
(* A snapshot and its answers: the link, takeSnapshot, the device's        *)
(* responses to the snapshot command, the notifications of new images and  *)
(* the completions of their fetches.                                       *)
(***************************************************************************)
SnapshotAnswers == {msg \in Responses : msg.Command = "RunSampleCapture"}

AnswersNext ==
    \/ \E host \in Hosts : ConnectToTelescope(host)
    \/ OnWebSocketConnected
    \/ OnWebSocketDisconnected
    \/ \E exposure \in Durations, iso \in Gains : TakeSnapshot(exposure, iso)
    \/ \E msg \in SnapshotAnswers : OnTextMessageReceived(msg, NotProcessed)
    \* one fetch at a time
    \/ \E msg \in ExposureNotifications :
          OnTextMessageReceived(msg, NotProcessed) /\ Len(replies') <= MaxFetches
    \/ \E i \in 1..MaxFetches, outcome \in Outcomes : OnRequestFinished(i, outcome)

SpecAnswers == Init /\ [][AnswersNext]_vars

(***************************************************************************)
(* The camera across connections: every connection event, with an exposure *)
(* started, a snapshot requested and the camera's own notifications of a   *)
(* new image.                                                              *)
(***************************************************************************)
CameraNotifications == {msg \in ExposureNotifications : msg.Source = "Camera"}

ReconnectNext ==
    \/ \E host \in Hosts : ConnectToTelescope(host)
    \/ ConnectTimeout
    \/ OnWebSocketConnected
    \/ OnWebSocketDisconnected
    \/ \E closesAtOnce \in BOOLEAN : DisconnectFromTelescope(closesAtOnce)
    \/ \E connected \in BOOLEAN : SetConnected(connected)
    \/ \E duration \in Durations, iso \in Gains, now \in Times :
          StartExposure(duration, iso, now)
    \/ \E exposure \in Durations, iso \in Gains : TakeSnapshot(exposure, iso)
    \/ \E msg \in CameraNotifications : OnTextMessageReceived(msg, NotProcessed)

SpecReconnect == Init /\ [][ReconnectNext]_vars

(***************************************************************************)
(* Properties of the command engine and of the gated operations, checked   *)
(* under SpecOperations.                                                   *)
(***************************************************************************)
\* C1: the SequenceID values of the commands written to the control channel
\* are strictly increasing, so no two written commands carry the same id; every
\* id lies between the seed 2000 and the counter; and as long as every
\* assigned id was written, the commands carry 2000, 2001, ... in order, the
\* first one the seed.
C1_SequenceIdsStrictlyIncreasing ==
    /\ m_nextSequenceId >= SeedSequenceId
    /\ \A i \in 1..Len(wire) :
          /\ wire[i].SequenceID >= SeedSequenceId
          /\ wire[i].SequenceID < m_nextSequenceId
    /\ \A i, j \in 1..Len(wire) : i < j => wire[i].SequenceID < wire[j].SequenceID
    /\ Len(wire) = m_nextSequenceId - SeedSequenceId =>
          \A i \in 1..Len(wire) : wire[i].SequenceID = SeedSequenceId + i - 1

\* the channel carries the query of a connected event, a rotation query, a
\* command of a caller sent through sendCommand and a command built by hand
C1_EverySourceWrote ==
    /\ Len(wire) >= 4
    /\ connections >= 1
    /\ m_statusRotation >= 1
    /\ Forwarded >= 1
    /\ \E i \in 1..Len(wire) : wire[i].SequenceID \notin DOMAIN m_pendingCommands

\* C2: a call of an operation that checks the link, made while the control
\* channel is not connected, returns false, writes nothing to the channel and
\* leaves the telescope status, the camera state, the snapshot flag, the cached
\* gain and exposure, the sequence counter and the pending table unchanged,
\* whatever the camera state is.
C2_DisconnectedCallChangesNothing ==
    [][(/\ ~isConnected
        /\ \/ \E ra \in Coordinates, dec \in Coordinates : GotoPosition(ra, dec)
           \/ \E ra \in Coordinates, dec \in Coordinates : SyncPosition(ra, dec)
           \/ AbortMotion
           \/ ParkMount
           \/ UnparkMount
           \/ InitializeTelescope
           \/ \E direction \in Directions, speed \in Speeds :
                 MoveDirection(direction, speed)
           \/ \E enabled \in BOOLEAN : SetTracking(enabled)
           \/ \E exposure \in Durations, iso \in Gains : TakeSnapshot(exposure, iso)
           \/ \E exposure \in Durations, iso \in Gains :
                 SetCaptureParameters(exposure, iso)
           \/ \E duration \in Durations, iso \in Gains, now \in Times :
                 StartExposure(duration, iso, now)
           \/ \E gain \in Gains : SetGain(gain)
           \/ AbortExposure)
       => /\ ret' = "false"
          /\ UNCHANGED <<wire, m_status, m_cameraState, m_snapshotInProgress,
                         m_currentGain, m_lastExposureDuration, m_currentExposure,
                         m_currentISO, m_nextSequenceId, m_pendingCommands>>]_vars

C3_LiveFrameDroppedDuringSnapshot ==
    [][\A msg \in FrameNotifications :
          (/\ m_snapshotInProgress
           /\ ~IsTiffPath(msg.FileLocation)
           /\ OnTextMessageReceived(msg, NotProcessed))
          => UNCHANGED <<replies, downloads, m_snapshotInProgress>>]_vars

\* a live frame of the image server was just received with the flag set, and
\* no fetch is in flight
C3_LiveFrameDropped ==
    /\ m_snapshotInProgress
    /\ Len(emitted) = 2
    /\ emitted[2][1] = "exposureComplete"
    /\ m_lastImagePath = JpgPath
    /\ m_lastImageFilePath = JpgPath
    /\ replies = <<>>

\* C4: no fetch of a live frame is issued between the moment a takeSnapshot
\* call sends its command and the moment the TIFF download of that snapshot
\* completes.
C4_NoLiveFetchWhileSnapshotOutstanding ==
    [][(/\ Len(replies') > Len(replies)
        /\ ~replies'[Len(replies')].isTiff)
       => ~snapshotOutstanding]_vars

\* C5: when the fetch of a .tif/.tiff path issued by requestImage completes
\* successfully, the snapshot flag is false immediately afterwards.
C5_TiffSuccessClearsFlag ==
    [][\A i \in 1..MaxFetches, body \in Bodies :
          (/\ i <= Len(replies)
           /\ replies[i].isTiff
           /\ OnRequestFinished(i, body))
          => ~m_snapshotInProgress']_vars

\* the TIFF of a requested snapshot was just downloaded
C5_SnapshotTiffDownloaded ==
    /\ Len(emitted) = 1
    /\ emitted[1][1] = "tiffImageDownloaded"
    /\ Forwarded >= 1
    /\ ~snapshotOutstanding
    /\ ~m_snapshotInProgress

(***************************************************************************)
(* Properties of the camera state machine, checked under SpecExposure.     *)
(***************************************************************************)
\* C6: every step that changes the camera state to Exposing is a
\* startExposure call made while the camera state is Idle.
C6_ExposingOnlyByStartExposureFromIdle ==
    [][(m_cameraState # "Exposing" /\ m_cameraState' = "Exposing")
       => /\ m_cameraState = "Idle"
          /\ \E duration \in Durations, iso \in Gains, now \in Times :
                StartExposure(duration, iso, now)]_vars

\* a startExposure call has just put the camera in Exposing
C6_ExposureStarted ==
    /\ m_cameraState = "Exposing"
    /\ ret = "true"
    /\ Len(emitted) = 2
    /\ emitted[1][1] = "exposureStarted"

\* C7: a step that takes the camera state from Exposing to Idle is an
\* abortExposure call; any other step into Idle starts in Reading and is the
\* successful completion of a download; and the completion of a fetch leaves
\* the camera state as it is.
C7_ExposingToIdleOnlyByAbort ==
    [][/\ (m_cameraState = "Exposing" /\ m_cameraState' = "Idle") => AbortExposure
       /\ (m_cameraState \notin {"Exposing", "Idle"} /\ m_cameraState' = "Idle") =>
             /\ m_cameraState = "Reading"
             /\ \E i \in 1..MaxFetches, body \in Bodies : OnImageDownloadFinished(i, body)
       /\ (\E i \in 1..MaxFetches, outcome \in Outcomes : OnRequestFinished(i, outcome))
             => m_cameraState' = m_cameraState]_vars

\* an abortExposure call has just taken the camera from Exposing to Idle
C7_ExposureAborted ==
    /\ m_cameraState = "Idle"
    /\ ret = "true"
    /\ Len(emitted) = 1
    /\ emitted[1][1] = "cameraStateChanged"
    /\ Len(wire) >= 1
    /\ wire[Len(wire)].Command = "AbortExposure"

\* C8: after a startExposure that returned true and a NewImageReady
\* notification for a .tiff path, the successful fetch of that path leaves the
\* camera Idle with the image-ready flag set, the downloaded bytes cached and
\* the cached format "TIFF".
C8_TiffFetchCompletesExposure ==
    [][\A i \in 1..MaxFetches, body \in Bodies :
          (/\ m_lastExposureStartTime # ""
           /\ m_cameraState = "Reading"
           /\ i <= Len(replies)
           /\ replies[i].isTiff
           /\ replies[i].filePath = m_lastImagePath
           /\ OnRequestFinished(i, body))
          => /\ m_cameraState' = "Idle"
             /\ m_imageReady'
             /\ m_lastImageData' = body
             /\ m_lastImageFormat' = "TIFF"]_vars

\* C9: startExposure called while the session is not logically connected, or
\* while the camera state is not Idle, returns false, writes no command,
\* consumes no sequence id and leaves the camera state, the recorded duration,
\* gain and start time, the image-ready flag and the buffered bytes unchanged.
C9_RejectedStartExposureChangesNothing ==
    [][(/\ ~isLogicallyConnected \/ m_cameraState # "Idle"
        /\ \E duration \in Durations, iso \in Gains, now \in Times :
              StartExposure(duration, iso, now))
       => /\ ret' = "false"
          /\ UNCHANGED <<wire, m_nextSequenceId, m_pendingCommands, m_cameraState,
                         m_lastExposureDuration, m_currentGain,
                         m_lastExposureStartTime, m_imageReady, m_lastImageData>>]_vars

\* a startExposure call was just rejected because an exposure is under way
C9_SecondStartExposureRejected ==
    /\ isLogicallyConnected
    /\ m_cameraState = "Exposing"
    /\ ret = "false"
    /\ emitted = <<>>

(***************************************************************************)
(* Properties of the link, the status flags and the timers, checked under  *)
(* SpecSession.                                                            *)
(***************************************************************************)
\* C11: whenever the disconnected event of the transport has been handled (the
\* socket leaves a connected, connecting or closing state for the unconnected
\* state), the logical-connected flag and the logical camera-connected flag
\* are both false.
C11_DisconnectedEventClearsLogicalFlags ==
    [][(sock # "Unconnected" /\ sock' = "Unconnected")
       => /\ ~m_status'.isLogicallyConnected
          /\ ~m_status'.isCameraLogicallyConnected]_vars

\* C12: the logical-connected flag is set only while the physical flag is set;
\* setConnected(true) without the physical flag changes nothing of the status;
\* and every step that clears the physical flag leaves the logical flag clear.
C12_LogicalFlagImpliesPhysicalFlag ==
    /\ [](m_status.isLogicallyConnected => m_status.isConnected)
    /\ [][/\ (~m_status.isConnected /\ SetConnected(TRUE)) => m_status' = m_status
          /\ (m_status.isConnected /\ ~m_status'.isConnected)
                => ~m_status'.isLogicallyConnected]_vars

\* the logical flag is set on a link that has dropped once and is up again, so
\* the flag was set by setConnected(true) after the reconnect
C12_LogicalFlagSetAfterReconnect ==
    /\ connections >= 2
    /\ m_status.isLogicallyConnected
    /\ m_status.isConnected

\* C13: right after disconnectFromTelescope, whatever the state it was called
\* in and whether or not the socket closes inside the call, the status timer
\* and the ping timer are stopped and the physical, the logical and the camera
\* logical flag are false.
C13_DisconnectStopsTimersAndClearsFlags ==
    [][(\E closesAtOnce \in BOOLEAN : DisconnectFromTelescope(closesAtOnce))
       => /\ ~statusTimerActive'
          /\ ~pingTimerActive'
          /\ ~m_status'.isConnected
          /\ ~m_status'.isLogicallyConnected
          /\ ~m_status'.isCameraLogicallyConnected]_vars

\* disconnectFromTelescope has returned on a link that was up and whose socket
\* is still closing
C13_DisconnectedWhileClosing ==
    /\ sock = "Closing"
    /\ connections >= 1
    /\ emitted = << <<"disconnected">> >>
    /\ ~statusTimerActive
    /\ ~m_status.isCameraLogicallyConnected

\* C14: every connectToTelescope call returns: a call that waits stops waiting
\* (at the connected event, else at the timeout); the connected event ends the
\* wait; and the value returned is true exactly when the socket is connected
\* at the return, for the call that returns at once as for the one that waited,
\* whatever handlers ran during the wait.
C14_ConnectCallReturns ==
    /\ (connectWaiting ~> ~connectWaiting)
    /\ [][/\ (connectWaiting /\ sock # "Connected" /\ sock' = "Connected")
                => ~connectWaiting'
          /\ (connectWaiting /\ ~connectWaiting')
                => connectResult' = (IF sock' = "Connected" THEN "true" ELSE "false")
          /\ (~connectWaiting /\ ~connectWaiting'
                /\ \E host \in Hosts : ConnectToTelescope(host))
                => (connectResult' = "true" /\ sock' = "Connected")]_vars

\* a call timed out after the socket had failed during its wait
C14_TimedOutAfterSocketFailed ==
    /\ ~connectWaiting
    /\ connectResult = "false"
    /\ ret = "false"
    /\ sock = "Unconnected"

\* C15: the status timer is active exactly when the ping timer is, and only
\* while the physical flag is set; the connected event starts both, the
\* disconnected event and disconnectFromTelescope stop both.
C15_TimersRunTogetherWhileConnected ==
    /\ []((statusTimerActive <=> pingTimerActive)
          /\ (statusTimerActive => m_status.isConnected))
    /\ [][/\ OnWebSocketConnected => (statusTimerActive' /\ pingTimerActive')
          /\ (OnWebSocketDisconnected
                \/ \E closesAtOnce \in BOOLEAN : DisconnectFromTelescope(closesAtOnce))
                => (~statusTimerActive' /\ ~pingTimerActive')]_vars

\* both timers run again on a link that was connected a second time
C15_TimersRestartedOnReconnect ==
    /\ connections >= 2
    /\ statusTimerActive
    /\ pingTimerActive
    /\ m_status.isConnected

\* C16: in the sequence of the queries updateStatus has written, GetStatus to
\* Mount is followed by GetStatus to Environment, that by GetCaptureParameters
\* to Camera, and that by GetStatus to Mount, whatever happened in between;
\* and updateStatus called without a link writes nothing, assigns no id and
\* leaves the rotation where it is.
C16_RotationIsRoundRobin ==
    /\ [](\A i \in 1..(Len(rotationQueries) - 1) :
            rotationQueries[i + 1] =
               (CASE rotationQueries[i] = <<"GetStatus", "Mount">>
                        -> <<"GetStatus", "Environment">>
                  [] rotationQueries[i] = <<"GetStatus", "Environment">>
                        -> <<"GetCaptureParameters", "Camera">>
                  [] rotationQueries[i] = <<"GetCaptureParameters", "Camera">>
                        -> <<"GetStatus", "Mount">>))
    /\ [][(~isConnected /\ UpdateStatus)
          => UNCHANGED <<wire, m_nextSequenceId, m_pendingCommands, m_statusRotation,
                         rotationQueries>>]_vars

\* the rotation went round once, across a reconnect: the fourth query of
\* updateStatus is the mount status query again
C16_RotationWentRound ==
    /\ Len(rotationQueries) = 4
    /\ rotationQueries[4] = <<"GetStatus", "Mount">>
    /\ connections >= 2

\* C17: apart from a caller that calls updateStatus itself, the rotation
\* advances, and a query of updateStatus is written, only at a tick of the
\* status timer, once per tick on a connected socket: no inbound message,
\* whatever the status parser made of it, moves the rotation.
C17_RotationAdvancesOnlyAtTicks ==
    [][/\ (/\ (m_statusRotation' # m_statusRotation \/ rotationQueries' # rotationQueries)
           /\ ~UpdateStatus)
             => ticksSinceConnected' = ticksSinceConnected + 1
       /\ (isConnected /\ ticksSinceConnected' = ticksSinceConnected + 1)
             => /\ m_statusRotation' = m_statusRotation + 1
                /\ Len(rotationQueries') = Len(rotationQueries) + 1
                /\ Len(wire') = Len(wire) + 1]_vars

(***************************************************************************)
(* Properties of abortExposure and of failed downloads, checked under      *)
(* SpecExposure and SpecSnapshot.                                          *)
(***************************************************************************)
\* C18 as the code behaves: abortExposure called in Exposing on a valid socket
\* writes an AbortExposure command to the camera, goes to Idle and returns
\* true in the call itself; called in Exposing without a valid socket it
\* returns false, writes nothing and stays in Exposing; called in any other
\* state it returns false, writes nothing, assigns no id and changes nothing
\* of the camera.
C18_AbortNeedsExposingAndSocket ==
    [][AbortExposure =>
          IF m_cameraState = "Exposing" /\ isValid
             THEN /\ ret' = "true"
                  /\ m_cameraState' = "Idle"
                  /\ Len(wire') = Len(wire) + 1
                  /\ wire'[Len(wire')].Command = "AbortExposure"
                  /\ wire'[Len(wire')].Destination = "Camera"
                  /\ emitted' = << <<"cameraStateChanged", 0>> >>
                  /\ UNCHANGED replies
             ELSE IF m_cameraState = "Exposing"
                     THEN /\ ret' = "false"
                          /\ m_cameraState' = "Exposing"
                          /\ UNCHANGED <<wire, m_pendingCommands>>
                     ELSE /\ ret' = "false"
                          /\ UNCHANGED <<cmdVars, expVars, imgVars, m_status>>]_vars

\* an abortExposure call was refused on an exposing camera whose link is down:
\* an id was assigned that no written command carries
C18_AbortRefusedWithoutLink ==
    /\ m_cameraState = "Exposing"
    /\ ~isValid
    /\ ret = "false"
    /\ m_nextSequenceId - SeedSequenceId > Len(wire)

\* C18 as claimed: abortExposure called in Exposing writes an abort command,
\* goes to Idle and returns true; called in any other state it returns false,
\* writes nothing and changes nothing.
C18_AbortWhileExposingSucceeds ==
    [][AbortExposure =>
          IF m_cameraState = "Exposing"
             THEN /\ ret' = "true"
                  /\ m_cameraState' = "Idle"
                  /\ Len(wire') = Len(wire) + 1
                  /\ wire'[Len(wire')].Command = "AbortExposure"
             ELSE /\ ret' = "false"
                  /\ UNCHANGED <<cmdVars, expVars, imgVars, m_status>>]_vars

\* C19: when a fetch issued by requestImage completes with an error, the
\* snapshot flag is false afterwards; and with the flag false, a notification
\* of a live frame from the image server issues a fetch again.
C19_FailedFetchClearsSnapshotFlag ==
    [][/\ \A i \in 1..MaxFetches :
             (i <= Len(replies) /\ OnRequestFinished(i, "error"))
                => ~m_snapshotInProgress'
       /\ \A msg \in FrameNotifications :
             (/\ ~m_snapshotInProgress
              /\ msg.Source = "ImageServer"
              /\ msg.FileLocation # EmptyPath
              /\ OnTextMessageReceived(msg, NotProcessed))
                => /\ Len(replies') = Len(replies) + 1
                   /\ replies'[Len(replies')].filePath = msg.FileLocation]_vars

\* the TIFF fetch of a snapshot has just failed: the error was logged, the
\* snapshot is no longer outstanding and the flag is clear
C19_SnapshotFetchFailed ==
    /\ emitted = << <<"qWarning", "Download error">> >>
    /\ Forwarded >= 1
    /\ ~snapshotOutstanding
    /\ ~m_snapshotInProgress

\* C20: after a startExposure that returned true and a NewImageReady
\* notification that took the camera to Reading, the failure of the download
\* of the notified path takes the camera to Error, raises cameraStateChanged
\* with the Error state, and leaves the cached bytes and the image-ready flag
\* as they were.
C20_FailedDownloadEndsInError ==
    [][\A i \in 1..MaxFetches :
          (/\ m_lastExposureStartTime # ""
           /\ m_cameraState = "Reading"
           /\ i <= Len(replies)
           /\ replies[i].filePath = m_lastImagePath
           /\ OnRequestFinished(i, "error"))
          => /\ m_cameraState' = "Error"
             /\ \E k \in 1..Len(emitted') : emitted'[k] = <<"cameraStateChanged", 3>>
             /\ UNCHANGED <<m_lastImageData, m_imageReady>>]_vars

(***************************************************************************)
(* Properties of sendCommand and of the pending table, checked under       *)
(* SpecOperations.                                                         *)
(***************************************************************************)
\* C21: sendCommand called without a connected channel writes nothing, adds
\* nothing to the pending table, returns and emits no signal; called on a
\* connected channel it appends exactly one message, the command it was given,
\* and adds exactly the entry of that message's id with the command name to
\* the pending table.
C21_SendCommandDropsOrRecords ==
    [][\A c \in UserCommands :
          SendCommand(c[1], c[2], c[3])
          => /\ ret' = "void"
             /\ emitted' = <<>>
             /\ IF isConnected
                   THEN /\ Len(wire') = Len(wire) + 1
                        /\ SubSeq(wire', 1, Len(wire)) = wire
                        /\ wire'[Len(wire')].Command = c[1]
                        /\ wire'[Len(wire')].Destination = c[2]
                        /\ DOMAIN m_pendingCommands' =
                              DOMAIN m_pendingCommands \cup {wire'[Len(wire')].SequenceID}
                        /\ m_pendingCommands'[wire'[Len(wire')].SequenceID] = c[1]
                        /\ \A k \in DOMAIN m_pendingCommands :
                              k # wire'[Len(wire')].SequenceID
                                 => m_pendingCommands'[k] = m_pendingCommands[k]
                   ELSE UNCHANGED <<wire, m_pendingCommands>>]_vars

\* sendCommand was called on a session that was never connected: an id is gone,
\* the channel and the pending table are empty
C21_SendDroppedOffline ==
    /\ connections = 0
    /\ m_nextSequenceId > SeedSequenceId
    /\ wire = <<>>
    /\ DOMAIN m_pendingCommands = {}
    /\ ret = "void"

\* C22: the id of every command written to the control channel is a key of the
\* pending table.
C22_WrittenIdsArePending ==
    \A i \in 1..Len(wire) : wire[i].SequenceID \in DOMAIN m_pendingCommands

(***************************************************************************)
(* Properties of setGain, of the Reading state and of the fetches a        *)
(* notification issues, checked under SpecExposure and SpecSnapshot.       *)
(***************************************************************************)
\* C23: setGain leaves the camera state as it is; called while logically
\* connected it caches the gain, writes SetCaptureParameters with that gain
\* and the duration of the last exposure, and returns true; called while not
\* logically connected it returns false and leaves the cached gain, the
\* sequence counter, the channel and the camera state unchanged.
C23_SetGainKeepsCameraState ==
    [][\A gain \in Gains :
          SetGain(gain)
          => /\ m_cameraState' = m_cameraState
             /\ IF isLogicallyConnected
                   THEN /\ ret' = "true"
                        /\ m_currentGain' = gain
                        /\ Len(wire') = Len(wire) + 1
                        /\ wire'[Len(wire')].Command = "SetCaptureParameters"
                        /\ wire'[Len(wire')].ISO = gain
                        /\ wire'[Len(wire')].Exposure = m_lastExposureDuration
                   ELSE /\ ret' = "false"
                        /\ UNCHANGED <<m_currentGain, m_nextSequenceId, wire>>]_vars

\* setGain has just returned true on a camera that is reading out the exposure
\* it sent the duration of
C23_GainSetWhileReading ==
    /\ m_cameraState = "Reading"
    /\ ret = "true"
    /\ Len(wire) >= 1
    /\ wire[Len(wire)].Command = "SetCaptureParameters"
    /\ m_lastExposureDuration # 0
    /\ wire[Len(wire)].Exposure = m_lastExposureDuration

\* C24: Reading is not a state the camera rests in: whenever the camera state
\* is Reading a fetch is still to complete.  (A behaviour that reaches Reading
\* with every issued fetch completed, and then takes no further input, has
\* completed every fetch and stays in Reading for ever.)
C24_ReadingHasFetchToComplete ==
    m_cameraState = "Reading" => (replies # <<>> \/ downloads # <<>>)

\* C25: a NewImageReady notification issues at most one fetch, counting the
\* GET of downloadImage and the GET of requestImage, also when it is a
\* notification of the image server that both branches of the dispatcher take;
\* with an empty path, or with no host recorded, it issues none.
C25_AtMostOneFetchPerNotification ==
    [][\A msg \in FrameNotifications :
          OnTextMessageReceived(msg, NotProcessed)
          => /\ (Len(replies') - Len(replies)) + (Len(downloads') - Len(downloads)) <= 1
             /\ (msg.FileLocation = EmptyPath \/ m_connectedHost = "")
                   => UNCHANGED <<replies, downloads>>]_vars

\* a notification of the image server went through handleNewImageReady and
\* through the ImageServer branch, and one fetch is in flight
C25_BothBranchesOneFetch ==
    /\ Len(emitted) = 2
    /\ emitted[2][1] = "exposureComplete"
    /\ m_cameraState = "Reading"
    /\ m_lastImagePath # EmptyPath
    /\ m_lastImageFilePath = m_lastImagePath
    /\ Len(replies) = 1
    /\ replies[1].filePath = m_lastImagePath
    /\ downloads = <<>>

(***************************************************************************)
(* Properties of the response handlers, checked under SpecSettings.        *)
(***************************************************************************)
\* C27: a Response with a non-zero error code, whatever its command, leaves
\* the cached exposure, ISO and manual mode as they are and emits none of
\* captureParametersChanged, cameraModeChanged and cameraInfoReceived.
C27_FailedResponseChangesNoSetting ==
    [][\A msg \in Responses :
          (msg.ErrorCode # 0 /\ OnTextMessageReceived(msg, NotProcessed))
          => /\ UNCHANGED <<m_currentExposure, m_currentISO, m_cameraManualMode>>
             /\ \A k \in 1..Len(emitted') :
                   emitted'[k][1] \notin {"captureParametersChanged", "cameraModeChanged",
                                          "cameraInfoReceived"}]_vars

\* a response with an error code was just handled, after a successful
\* capture-parameters response and a successful mode response: only the
\* warning was raised and the settings are those of the successful responses
C27_FailedResponseAfterSettings ==
    /\ m_currentExposure # DefaultExposure
    /\ m_currentISO # DefaultISO
    /\ m_cameraManualMode
    /\ emitted = << <<"qWarning", "Command error">> >>

(***************************************************************************)
(* Properties of the telescope status, checked under SpecStatus.           *)
(***************************************************************************)
\* C28: the slewing, tracking and parked flags and the current-operation
\* label of the telescope status change only in a step that handles an
\* inbound message; a call of gotoPosition, abortMotion, parkMount,
\* unparkMount, initializeTelescope or setTracking leaves them as they were.
C28_StatusChangesOnlyInMessageHandler ==
    [][(\/ m_status'.isSlewing # m_status.isSlewing
        \/ m_status'.isTracking # m_status.isTracking
        \/ m_status'.isParked # m_status.isParked
        \/ m_status'.currentOperation # m_status.currentOperation)
       => \E msg \in StatusNotifications, processing \in StatusRefreshes :
             OnTextMessageReceived(msg, processing)]_vars

\* C29: after a refresh of the status from the status parser the slewing flag
\* is the negation of the parser's goto-over flag, the tracking flag is the
\* parser's, and the label is "Slewing" if slewing, else "Tracking" if
\* tracking, else "Idle", whatever the flags and the label were before.
C29_RefreshDerivesLabelByPriority ==
    [][\A msg \in StatusNotifications, processing \in StatusRefreshes :
          (processing.processed /\ OnTextMessageReceived(msg, processing))
          => /\ m_status'.isSlewing = ~processing.data.isGotoOver
             /\ m_status'.isTracking = processing.data.isTracking
             /\ m_status'.currentOperation =
                   (IF m_status'.isSlewing THEN "Slewing"
                    ELSE IF m_status'.isTracking THEN "Tracking"
                    ELSE "Idle")]_vars

\* a refresh has replaced the label parkMount had set: the mount is still
\* marked parked, it is slewing and tracking, and the label is "Slewing"
C29_RefreshReplacedCallerLabel ==
    /\ m_status.isParked
    /\ m_status.isSlewing
    /\ m_status.isTracking
    /\ m_status.currentOperation = "Slewing"
    /\ Len(emitted) >= 1
    /\ emitted[1] = <<"statusUpdated">>

(***************************************************************************)
(* Properties of the context of a fetch, checked under SpecDownloads.      *)
(***************************************************************************)
\* C30: the reply of a fetch is created with the path, the TIFF / JPEG class
\* and the Ra / Dec / ExposureTime of the notification that issues it; no
\* later notification, fetched or dropped, and no other completion changes a
\* reply in flight; and the completion of a fetch delivers the values of its
\* own reply, in whatever order overlapping fetches complete.
C30_CompletionCarriesItsNotification ==
    [][/\ \A msg \in DownloadNotifications :
             OnTextMessageReceived(msg, NotProcessed)
             => \/ replies' = replies
                \/ /\ Len(replies') = Len(replies) + 1
                   /\ SubSeq(replies', 1, Len(replies)) = replies
                   /\ replies'[Len(replies')].filePath = msg.FileLocation
                   /\ replies'[Len(replies')].isTiff = (msg.FileLocation = TiffPath)
                   /\ replies'[Len(replies')].meta = msg.Meta
       /\ \A i \in 1..MaxOverlap, body \in Bodies :
             (i <= Len(replies) /\ OnRequestFinished(i, body))
             => /\ replies' = RemoveAt(replies, i)
                /\ replies[i].isTiff
                      => emitted' = << <<"tiffImageDownloaded", replies[i].filePath, body,
                                         replies[i].meta>> >>
                /\ (~replies[i].isTiff /\ body = "image")
                      => emitted' = << <<"liveImageDownloaded", body, replies[i].meta>> >>
       /\ Len(replies') >= Len(replies) => SubSeq(replies', 1, Len(replies)) = replies]_vars

\* a live frame was delivered while another fetch is in flight, and its
\* coordinates are neither those of the fetch in flight nor those of the
\* notification received last
C30_DeliveredWhileOthersArrived ==
    /\ Len(emitted) = 1
    /\ emitted[1][1] = "liveImageDownloaded"
    /\ Len(replies) = 1
    /\ emitted[1][3] # m_lastImageMeta
    /\ replies[1].filePath = TiffPath

(***************************************************************************)
(* Properties of the end of a session, checked under SpecSession.          *)
(***************************************************************************)
\* C31: while the session is not connected and no connectToTelescope call is
\* waiting (disconnectFromTelescope has returned, a connection attempt has
\* timed out and returned false, or the link dropped), no step makes it
\* connected, starts a periodic timer or writes a command; only a new
\* connectToTelescope call, which opens the socket and waits, leads on.
C31_NoRevivalWithoutConnectCall ==
    [][(~connectWaiting /\ ~isConnected)
       => /\ ~isConnected'
          /\ ~m_status'.isConnected
          /\ statusTimerActive' => statusTimerActive
          /\ pingTimerActive' => pingTimerActive
          /\ wire' = wire]_vars

(***************************************************************************)
(* Properties of singleShot, checked under SpecSingleShot.                 *)
(***************************************************************************)
\* C32: a singleShot call that waits for its exposure leaves the wait, when
\* the image becomes ready or when the timeout fires; the exposing flag is
\* then false and the call has returned.
C32_SingleShotWaitEnds ==
    (singleShotPc = "loop") ~> (singleShotPc = "none" /\ ~m_isExposing)

(***************************************************************************)
(* Properties of the end of a snapshot, checked under SpecAnswers.         *)
(***************************************************************************)
\* C33: a set snapshot-in-progress flag is cleared in the end; in particular
\* when the device answers the snapshot command with an error response, or
\* when the link drops, the flag is either cleared or the fetch of a TIFF,
\* whose completion clears it, is still in flight.
C33_SnapshotFlagNotLeftSet ==
    [][(/\ m_snapshotInProgress
        /\ \/ OnWebSocketDisconnected
           \/ \E msg \in SnapshotAnswers :
                 msg.ErrorCode # 0 /\ OnTextMessageReceived(msg, NotProcessed))
       => \/ ~m_snapshotInProgress'
          \/ \E i \in 1..Len(replies') : replies'[i].isTiff]_vars

(***************************************************************************)
(* Properties of the camera across connections, checked under              *)
(* SpecReconnect.                                                          *)
(***************************************************************************)
\* C34: connectToTelescope, the end of its wait, the transport's connected and
\* disconnected events and disconnectFromTelescope leave the camera state
\* and the snapshot-in-progress flag as they were.
C34_ConnectionEventsKeepCamera ==
    [][(\/ \E host \in Hosts : ConnectToTelescope(host)
        \/ ConnectTimeout
        \/ OnWebSocketConnected
        \/ OnWebSocketDisconnected
        \/ \E closesAtOnce \in BOOLEAN : DisconnectFromTelescope(closesAtOnce))
       => /\ m_cameraState' = m_cameraState
          /\ m_snapshotInProgress' = m_snapshotInProgress]_vars

\* the session has just been connected for the second time with the camera
\* still Exposing and the snapshot flag still set from before the link dropped
C34_ExposingAcrossReconnect ==
    /\ connections = 2
    /\ emitted = << <<"connected">> >>
    /\ m_cameraState = "Exposing"
    /\ m_snapshotInProgress

(***************************************************************************)
(* Properties of the disconnected notification, checked under SpecSession. *)
(***************************************************************************)
\* the disconnected notifications among the signals of one call or handler
DisconnectedCount(signals) ==
    Cardinality({i \in DOMAIN signals : signals[i] = <<"disconnected">>})

\* C35: disconnectFromTelescope on a connected session raises, together with
\* the transport's disconnected event it causes, one disconnected
\* notification: one inside the call when the close finishes at once, none
\* when the event is still to come; and on a session that was never
\* connected it raises none.
C35_OneDisconnectedPerLoss ==
    [][\A closesAtOnce \in BOOLEAN :
          DisconnectFromTelescope(closesAtOnce)
          => /\ isConnected
                => DisconnectedCount(emitted')
                      + (IF sock' = "Closing" THEN 1 ELSE 0) = 1
             /\ connections = 0 => DisconnectedCount(emitted') = 0]_vars

====
